---- MODULE Spec2Model ----
(***************************************************************************)
(* Model of custom-proxy.py: a forward proxy that gates access behind HTTP *)
(* Basic credentials and then tunnels (CONNECT) or relays one request and  *)
(* one reply (plain HTTP).                                                 *)
(*                                                                         *)
(* Text is modelled at the character level: a Python str is a sequence of  *)
(* one-character strings, a bytes object coming out of base64 a sequence   *)
(* of integers 0..255.                                                     *)
(***************************************************************************)
EXTENDS Integers, Sequences, FiniteSets, TLC

(***************************************************************************)
(* Text primitives (Python str methods used by the program)                *)
(***************************************************************************)

UpperChars == <<"A","B","C","D","E","F","G","H","I","J","K","L","M","N","O","P","Q","R","S","T","U","V","W","X","Y","Z">>

LowerChars == <<"a","b","c","d","e","f","g","h","i","j","k","l","m","n","o","p","q","r","s","t","u","v","w","x","y","z">>

\* str.lower() of each upper-case letter
LowerOf == [i \in 1..26 |-> LowerChars[i]]

UpperSet == {UpperChars[i] : i \in 1..26}

UpperIndex == [c \in UpperSet |-> CHOOSE i \in 1..26 : UpperChars[i] = c]

\* str.lower() on one character
LowerChar(c) == IF c \in UpperSet THEN LowerOf[UpperIndex[c]] ELSE c

\* str.lower()
Lower(s) == [i \in 1..Len(s) |-> LowerChar(s[i])]

\* str.startswith(p)
StartsWith(s, p) == Len(s) >= Len(p) /\ SubSeq(s, 1, Len(p)) = p

\* s[n:]
DropFirst(s, n) == IF n >= Len(s) THEN <<>> ELSE SubSeq(s, n + 1, Len(s))

\* index of the first occurrence of sep in s, 0 when there is none (str.find + 1)
Find(s, sep) ==
    LET hits == {i \in 1..(Len(s) - Len(sep) + 1) : SubSeq(s, i, i + Len(sep) - 1) = sep}
    IN  IF hits = {} THEN 0 ELSE CHOOSE i \in hits : \A j \in hits : i <= j

\* sep in s
Contains(s, sep) == Find(s, sep) # 0

RECURSIVE Split(_, _)
\* str.split(sep): every piece between occurrences of sep
Split(s, sep) ==
    LET k == Find(s, sep)
    IN  IF k = 0 THEN <<s>>
        ELSE <<SubSeq(s, 1, k - 1)>> \o Split(DropFirst(s, k + Len(sep) - 1), sep)

\* str.split(sep, 1): at most one cut, at the first occurrence of sep
Split1(s, sep) ==
    LET k == Find(s, sep)
    IN  IF k = 0 THEN <<s>>
        ELSE <<SubSeq(s, 1, k - 1), DropFirst(s, k + Len(sep) - 1)>>

\* the characters str.strip() and str.split() treat as white space
Whitespace == {" ", "\t", "\n", "\r", "\f"}

RECURSIVE LStrip(_)
LStrip(s) == IF s # <<>> /\ Head(s) \in Whitespace THEN LStrip(Tail(s)) ELSE s

RECURSIVE RStrip(_)
RStrip(s) ==
    IF s # <<>> /\ s[Len(s)] \in Whitespace THEN RStrip(SubSeq(s, 1, Len(s) - 1)) ELSE s

\* str.strip()
Strip(s) == RStrip(LStrip(s))

RECURSIVE SplitWs(_)
\* str.split() without argument: the maximal runs of non-white-space
SplitWs(s) ==
    LET t == LStrip(s)
        ws == {i \in 1..Len(t) : t[i] \in Whitespace}
        k == IF ws = {} THEN Len(t) + 1 ELSE CHOOSE i \in ws : \A j \in ws : i <= j
    IN  IF t = <<>> THEN <<>>
        ELSE <<SubSeq(t, 1, k - 1)>> \o SplitWs(DropFirst(t, k - 1))

Digits == <<"0","1","2","3","4","5","6","7","8","9">>

IsDigit(c) == \E i \in 1..10 : Digits[i] = c

DigitVal(c) == (CHOOSE i \in 1..10 : Digits[i] = c) - 1

RECURSIVE DecVal(_)
DecVal(s) == IF s = <<>> THEN 0 ELSE 10 * DecVal(SubSeq(s, 1, Len(s) - 1)) + DigitVal(s[Len(s)])

\* int(s) on a token without white space: an optional sign and decimal
\* digits; anything else raises ValueError (ok = FALSE)
ParseInt(s) ==
    LET signed == s # <<>> /\ Head(s) \in {"+", "-"}
        body == IF signed THEN Tail(s) ELSE s
    IN  IF body # <<>> /\ \A i \in 1..Len(body) : IsDigit(body[i])
        THEN [ok |-> TRUE, val |-> IF signed /\ Head(s) = "-" THEN 0 - DecVal(body) ELSE DecVal(body)]
        ELSE [ok |-> FALSE, val |-> 0]

(***************************************************************************)
(* base64.b64decode, bytes.decode('utf-8') and str.encode()                *)
(***************************************************************************)

B64Chars == <<"A","B","C","D","E","F","G","H","I","J","K","L","M","N","O","P","Q","R","S","T","U","V","W","X","Y","Z","a","b","c","d","e","f","g","h","i","j","k","l","m","n","o","p","q","r","s","t","u","v","w","x","y","z","0","1","2","3","4","5","6","7","8","9","+","/">>

B64Set == {B64Chars[i] : i \in 1..64}

IsB64Char(c) == c \in B64Set

\* the six-bit value of each character of the alphabet
B64Index == [c \in B64Set |-> (CHOOSE i \in 1..64 : B64Chars[i] = c) - 1]

B64Val(c) == B64Index[c]

\* binascii.a2b_base64 in its default (non strict) mode.  Characters outside
\* the alphabet are skipped; '=' counts as padding when the current quad holds
\* at least two characters, and the scan stops (ignoring what follows) at the
\* '=' that completes the quad: the first '=' of a quad of three, the second
\* '=' of a quad of two with no data character in between (the pad count
\* restarts at every data character).  B64Stop is the index of that '=', 0
\* when there is none.
B64Stop(s) ==
    LET pads == {i \in 1..Len(s) : s[i] = "="}
        Quad(i) == Cardinality({j \in 1..(i - 1) : IsB64Char(s[j])}) % 4
        stops == {i \in pads :
                    \/ Quad(i) = 3
                    \/ /\ Quad(i) = 2
                       /\ \E j \in pads : j < i /\ \A k \in j..i : ~IsB64Char(s[k])}
    IN  IF stops = {} THEN 0 ELSE CHOOSE i \in stops : \A j \in stops : i <= j

\* The bytes come out of the data characters four at a time (three bytes a
\* quad, one or two for a trailing quad of two or three characters); a quad
\* left incomplete when the input ends raises binascii.Error (ok = FALSE).
B64Scan(s) ==
    LET stop == B64Stop(s)
        scanned == IF stop = 0 THEN s ELSE SubSeq(s, 1, stop - 1)
        d == SelectSeq(scanned, IsB64Char)
        v == [i \in 1..Len(d) |-> B64Val(d[i])]
        m == Len(d)
        n == (m \div 4) * 3 + (IF (m % 4) = 2 THEN 1 ELSE IF (m % 4) = 3 THEN 2 ELSE 0)
        Byte(k) == LET g == 4 * ((k - 1) \div 3)
                       r == (k - 1) % 3
                   IN  IF r = 0 THEN v[g + 1] * 4 + (v[g + 2] \div 16)
                       ELSE IF r = 1 THEN (v[g + 2] % 16) * 16 + (v[g + 3] \div 4)
                       ELSE (v[g + 3] % 4) * 64 + v[g + 4]
    IN  [ok |-> stop # 0 \/ (m % 4) = 0, val |-> [k \in 1..n |-> Byte(k)]]

\* base64.b64decode(s) of a str: bytes as integers 0..255 (a str argument is
\* first encoded as ASCII: a non-ASCII character raises)
B64Decode(s) ==
    IF \E i \in 1..Len(s) : s[i] = "U+" THEN [ok |-> FALSE, val |-> <<>>]
    ELSE B64Scan(s)

Printable == <<" ","!","\"","#","$","%","&","'","(",")","*","+",",","-",".","/","0","1","2","3","4","5","6","7","8","9",":",";","<","=",">","?","@","A","B","C","D","E","F","G","H","I","J","K","L","M","N","O","P","Q","R","S","T","U","V","W","X","Y","Z","[","\\","]","^","_","GRAVE","a","b","c","d","e","f","g","h","i","j","k","l","m","n","o","p","q","r","s","t","u","v","w","x","y","z","{","|","}","~">>

\* the character of an ASCII code; the grave accent (no TLA+ literal) is
\* written "GRAVE", control codes without a TLA+ escape "CTL"
Chr(b) ==
    IF b >= 32 /\ b <= 126 THEN Printable[b - 31]
    ELSE IF b = 9 THEN "\t" ELSE IF b = 10 THEN "\n" ELSE IF b = 13 THEN "\r"
    ELSE IF b = 12 THEN "\f" ELSE "CTL"

RECURSIVE Utf8Scan(_, _, _)
\* bytes.decode('utf-8') from index i on: ASCII bytes map to their character;
\* a well-formed multi-byte sequence gives one non-ASCII character, written
\* "U+"; any other byte raises UnicodeDecodeError (ok = FALSE).
Utf8Scan(b, i, out) ==
    LET high == {j \in i..Len(b) : b[j] >= 128}
        k == IF high = {} THEN Len(b) + 1 ELSE CHOOSE j \in high : \A h \in high : j <= h
        run == out \o [j \in 1..(k - i) |-> Chr(b[i + j - 1])]
        n == IF k > Len(b) THEN 0
             ELSE IF b[k] >= 194 /\ b[k] <= 223 THEN 1
             ELSE IF b[k] >= 224 /\ b[k] <= 239 THEN 2
             ELSE IF b[k] >= 240 /\ b[k] <= 244 THEN 3
             ELSE 4
    IN  IF k > Len(b) THEN [ok |-> TRUE, val |-> run]
        ELSE IF n = 4 \/ k + n > Len(b) THEN [ok |-> FALSE, val |-> <<>>]
        ELSE IF \A j \in (k + 1)..(k + n) : b[j] >= 128 /\ b[j] <= 191
             THEN Utf8Scan(b, k + n + 1, Append(run, "U+"))
             ELSE [ok |-> FALSE, val |-> <<>>]

\* bytes.decode('utf-8')
Utf8Decode(b) == Utf8Scan(b, 1, <<>>)

PrintableSet == {Printable[i] : i \in 1..95}

\* the ASCII code of each printable character
PrintableCode == [c \in PrintableSet |-> (CHOOSE i \in 1..95 : Printable[i] = c) + 31]

\* the ASCII code of a character
Ord(c) ==
    IF c \in PrintableSet THEN PrintableCode[c]
    ELSE IF c = "\t" THEN 9 ELSE IF c = "\n" THEN 10 ELSE IF c = "\r" THEN 13
    ELSE IF c = "\f" THEN 12 ELSE 0

\* str.encode() of ASCII text
Utf8Encode(s) == [i \in 1..Len(s) |-> Ord(s[i])]

(***************************************************************************)
(* Program text: literals of custom-proxy.py                               *)
(***************************************************************************)

CRLF == <<"\r","\n">>

ProxyAuthPrefix == <<"p","r","o","x","y","-","a","u","t","h","o","r","i","z","a","t","i","o","n",":">>

BasicPrefix == <<"B","a","s","i","c"," ">>

ConnectWord == <<"C","O","N","N","E","C","T">>

HttpScheme == <<"h","t","t","p",":","/","/">>

UserName == <<"e","n","t","e","r","p","r","i","s","e","u","s","e","r">>

UserPassword == <<"e","n","t","e","r","p","r","i","s","e","1","2","3">>

\* the module-level credential table as the program starts with it
InitialUsers == (UserName :> UserPassword)

\* size of every recv() buffer
BUFSIZE == 4096

\* port of a plain http:// target
HTTP_PORT == 80

Response407Required == <<"H","T","T","P","/","1",".","1"," ","4","0","7"," ","P","r","o","x","y"," ","A","u","t","h","e","n","t","i","c","a","t","i","o","n"," ","R","e","q","u","i","r","e","d","\r","\n","S","e","r","v","e","r",":"," ","C","u","s","t","o","m","-","E","n","t","e","r","p","r","i","s","e","-","P","r","o","x","y","/","1",".","0","\r","\n","P","r","o","x","y","-","A","u","t","h","e","n","t","i","c","a","t","e",":"," ","B","a","s","i","c"," ","r","e","a","l","m","=","\"","E","n","t","e","r","p","r","i","s","e"," ","P","r","e","-","A","u","t","h"," ","P","r","o","x","y","\"","\r","\n","C","o","n","t","e","n","t","-","T","y","p","e",":"," ","t","e","x","t","/","h","t","m","l","\r","\n","C","o","n","t","e","n","t","-","L","e","n","g","t","h",":"," ","9","7","\r","\n","C","o","n","n","e","c","t","i","o","n",":"," ","c","l","o","s","e","\r","\n","\r","\n","<","h","t","m","l",">","<","b","o","d","y",">","<","h","1",">","4","0","7"," ","P","r","o","x","y"," ","A","u","t","h","e","n","t","i","c","a","t","i","o","n"," ","R","e","q","u","i","r","e","d","<","/","h","1",">","<","p",">","A","u","t","h","e","n","t","i","c","a","t","i","o","n"," ","r","e","q","u","i","r","e","d",".","<","/","p",">","<","/","b","o","d","y",">","<","/","h","t","m","l",">">>

Response407Invalid == <<"H","T","T","P","/","1",".","1"," ","4","0","7"," ","P","r","o","x","y"," ","A","u","t","h","e","n","t","i","c","a","t","i","o","n"," ","R","e","q","u","i","r","e","d","\r","\n","S","e","r","v","e","r",":"," ","C","u","s","t","o","m","-","E","n","t","e","r","p","r","i","s","e","-","P","r","o","x","y","/","1",".","0","\r","\n","P","r","o","x","y","-","A","u","t","h","e","n","t","i","c","a","t","e",":"," ","B","a","s","i","c"," ","r","e","a","l","m","=","\"","E","n","t","e","r","p","r","i","s","e"," ","P","r","e","-","A","u","t","h"," ","P","r","o","x","y","\"","\r","\n","C","o","n","t","e","n","t","-","T","y","p","e",":"," ","t","e","x","t","/","h","t","m","l","\r","\n","C","o","n","t","e","n","t","-","L","e","n","g","t","h",":"," ","9","7","\r","\n","C","o","n","n","e","c","t","i","o","n",":"," ","c","l","o","s","e","\r","\n","\r","\n","<","h","t","m","l",">","<","b","o","d","y",">","<","h","1",">","4","0","7"," ","P","r","o","x","y"," ","A","u","t","h","e","n","t","i","c","a","t","i","o","n"," ","R","e","q","u","i","r","e","d","<","/","h","1",">","<","p",">","I","n","v","a","l","i","d"," ","c","r","e","d","e","n","t","i","a","l","s",".","<","/","p",">","<","/","b","o","d","y",">","<","/","h","t","m","l",">">>

Response400 == <<"H","T","T","P","/","1",".","1"," ","4","0","0"," ","B","a","d"," ","R","e","q","u","e","s","t","\r","\n","\r","\n">>

Response200 == <<"H","T","T","P","/","1",".","1"," ","2","0","0"," ","C","o","n","n","e","c","t","i","o","n"," ","E","s","t","a","b","l","i","s","h","e","d","\r","\n","\r","\n">>

\* response.encode() of the four fixed responses
Bytes407Required == Utf8Encode(Response407Required)

Bytes407Invalid == Utf8Encode(Response407Invalid)

Bytes400 == Utf8Encode(Response400)

Bytes200 == Utf8Encode(Response200)

(***************************************************************************)
(* Pure parts of handle_client and forward_request                         *)
(***************************************************************************)

\* the scan for the Proxy-Authorization header: the first line (of all the
\* lines of the request) whose lower-cased text starts with
\* 'proxy-authorization:' gives the value, what follows its first colon,
\* stripped; None (found = FALSE) when no line matches
FindAuthHeader(lines) ==
    LET hits == {i \in 1..Len(lines) : StartsWith(Lower(lines[i]), ProxyAuthPrefix)}
    IN  IF hits = {} THEN [found |-> FALSE, val |-> <<>>]
        ELSE LET i == CHOOSE h \in hits : \A j \in hits : h <= j
             IN  [found |-> TRUE, val |-> Strip(Split1(lines[i], <<":">>)[2])]

\* the credential check: TRUE exactly when forward_request is called; any
\* exception of the decoding or of the unpacking is swallowed by the bare
\* except and leads to the second 407
CredentialsValid(auth_header, users) ==
    /\ StartsWith(auth_header, BasicPrefix)
    /\ LET raw == B64Decode(DropFirst(auth_header, 6))
       IN  /\ raw.ok
           /\ LET txt == Utf8Decode(raw.val)
              IN  /\ txt.ok
                  /\ LET parts == Split1(txt.val, <<":">>)
                     IN  /\ Len(parts) = 2
                         /\ parts[1] \in DOMAIN users
                         /\ users[parts[1]] = parts[2]

\* the decision of handle_client on a non-empty request: "l41" (no header
\* value: first 407), "l54" (call forward_request) or "l68" (second 407)
AuthDecision(request, users) ==
    LET lines == Split(request, CRLF)
        auth_header == FindAuthHeader(lines)
    IN  IF ~auth_header.found \/ auth_header.val = <<>> THEN "l41"
        ELSE IF CredentialsValid(auth_header.val, users) THEN "l54"
        ELSE "l68"

\* first_line.startswith('CONNECT')
IsConnect(first_line) == StartsWith(first_line, ConnectWord)

\* a target extraction without the 400 branch, which takes any target that
\* is not an absolute http URL for a host name
ParseTargetAnyUrl(first_line) ==
    LET toks == SplitWs(first_line)
        none == [kind |-> "raise", host |-> <<>>, port |-> 0]
    IN  IF Len(toks) < 2 THEN none
        ELSE IF IsConnect(first_line) THEN
            LET parts == Split(toks[2], <<":">>)
            IN  IF Len(parts) # 2 \/ ~ParseInt(parts[2]).ok THEN none
                ELSE [kind |-> "dial", host |-> parts[1], port |-> ParseInt(parts[2]).val]
        ELSE LET url == IF StartsWith(toks[2], HttpScheme) THEN DropFirst(toks[2], 7) ELSE toks[2]
             IN  [kind |-> "dial",
                  host |-> IF Contains(url, <<"/">>) THEN Split(url, <<"/">>)[1] ELSE url,
                  port |-> HTTP_PORT]

\* a target extraction that takes a request line without target for a bad
\* target and answers it
ParseTargetNoTarget400(first_line) ==
    LET toks == SplitWs(first_line)
        none == [kind |-> "raise", host |-> <<>>, port |-> 0]
    IN  IF Len(toks) < 2 THEN [kind |-> "bad", host |-> <<>>, port |-> 0]
        ELSE IF IsConnect(first_line) THEN
            LET parts == Split(toks[2], <<":">>)
            IN  IF Len(parts) # 2 \/ ~ParseInt(parts[2]).ok THEN none
                ELSE [kind |-> "dial", host |-> parts[1], port |-> ParseInt(parts[2]).val]
        ELSE IF StartsWith(toks[2], HttpScheme) THEN
            LET url == DropFirst(toks[2], 7)
            IN  [kind |-> "dial",
                 host |-> IF Contains(url, <<"/">>) THEN Split(url, <<"/">>)[1] ELSE url,
                 port |-> HTTP_PORT]
        ELSE [kind |-> "bad", host |-> <<>>, port |-> 0]

\* the target extraction of forward_request: "dial" with host and port,
\* "bad" for the 400 branch, "raise" when indexing, unpacking or int() raises
ParseTarget(first_line) ==
    LET toks == SplitWs(first_line)
        none == [kind |-> "raise", host |-> <<>>, port |-> 0]
    IN  IF Len(toks) < 2 THEN none
        ELSE IF IsConnect(first_line) THEN
            LET parts == Split(toks[2], <<":">>)
            IN  IF Len(parts) # 2 \/ ~ParseInt(parts[2]).ok THEN none
                ELSE [kind |-> "dial", host |-> parts[1], port |-> ParseInt(parts[2]).val]
        ELSE IF StartsWith(toks[2], HttpScheme) THEN
            LET url == DropFirst(toks[2], 7)
            IN  [kind |-> "dial",
                 host |-> IF Contains(url, <<"/">>) THEN Split(url, <<"/">>)[1] ELSE url,
                 port |-> HTTP_PORT]
        ELSE [kind |-> "bad", host |-> <<>>, port |-> 0]


(***************************************************************************)
(* Inputs: the requests a client may send                                  *)
(***************************************************************************)

\* base64 of 'enterpriseuser:enterprise123'
TokValid == <<"Z","W","5","0","Z","X","J","w","c","m","l","z","Z","X","V","z","Z","X","I","6","Z","W","5","0","Z","X","J","w","c","m","l","z","Z","T","E","y","M","w","=","=">>

\* base64 of 'enterpriseuser:wrong'
TokWrongPw == <<"Z","W","5","0","Z","X","J","w","c","m","l","z","Z","X","V","z","Z","X","I","6","d","3","J","v","b","m","c","=">>

\* base64 of 'admin:enterprise123'
TokUnknownUser == <<"Y","W","R","t","a","W","4","6","Z","W","5","0","Z","X","J","w","c","m","l","z","Z","T","E","y","M","w","=","=">>

\* base64 of 'enterpriseuser' (no colon)
TokNoColon == <<"Z","W","5","0","Z","X","J","w","c","m","l","z","Z","X","V","z","Z","X","I","=">>

\* base64 of 'enterpriseuser:enterprise123:x'
TokExtraColon == <<"Z","W","5","0","Z","X","J","w","c","m","l","z","Z","X","V","z","Z","X","I","6","Z","W","5","0","Z","X","J","w","c","m","l","z","Z","T","E","y","M","z","p","4">>

\* base64 of the single byte 0xFF (not UTF-8)
TokBadUtf8 == <<"/","w","=","=">>

\* TokValid without its padding (b64decode raises)
TokBadPadding == <<"Z","W","5","0","Z","X","J","w","c","m","l","z","Z","X","V","z","Z","X","I","6","Z","W","5","0","Z","X","J","w","c","m","l","z","Z","T","E","y","M","w">>

\* TokValid with characters outside the base64 alphabet inside
TokLenient == <<"Z","W","5","0","Z","X","J","w","!","c","m","l","z","Z","X","V","z","Z","X","I","6","Z","W","5","0"," ","Z","X","J","w","c","m","l","z","Z","T","E","y","M","w","=","=">>

LineConnect == <<"C","O","N","N","E","C","T"," ","e","x","a","m","p","l","e",".","c","o","m",":","4","4","3"," ","H","T","T","P","/","1",".","1">>

LineConnectNoPort == <<"C","O","N","N","E","C","T"," ","e","x","a","m","p","l","e",".","c","o","m"," ","H","T","T","P","/","1",".","1">>

LineConnectBadPort == <<"C","O","N","N","E","C","T"," ","e","x","a","m","p","l","e",".","c","o","m",":","h","t","t","p","s"," ","H","T","T","P","/","1",".","1">>

LineGet == <<"G","E","T"," ","h","t","t","p",":","/","/","e","x","a","m","p","l","e",".","c","o","m","/"," ","H","T","T","P","/","1",".","1">>

LineGetNoPath == <<"G","E","T"," ","h","t","t","p",":","/","/","e","x","a","m","p","l","e",".","c","o","m"," ","H","T","T","P","/","1",".","1">>

LineGetHostPort == <<"G","E","T"," ","h","t","t","p",":","/","/","e","x","a","m","p","l","e",".","c","o","m",":","8","0","8","0","/","a"," ","H","T","T","P","/","1",".","1">>

LinePost == <<"P","O","S","T"," ","h","t","t","p",":","/","/","e","x","a","m","p","l","e",".","c","o","m","/"," ","H","T","T","P","/","1",".","1">>

LineRelative == <<"G","E","T"," ","/","i","n","d","e","x",".","h","t","m","l"," ","H","T","T","P","/","1",".","1">>

LineNoTarget == <<"G","E","T">>

LineHost == <<"H","o","s","t",":"," ","e","x","a","m","p","l","e",".","c","o","m">>

HdrBasic == <<"P","r","o","x","y","-","A","u","t","h","o","r","i","z","a","t","i","o","n",":"," ","B","a","s","i","c"," ">>

HdrBasicLower == <<"p","r","o","x","y","-","a","u","t","h","o","r","i","z","a","t","i","o","n",":","B","a","s","i","c"," ">>

HdrBearer == <<"P","r","o","x","y","-","A","u","t","h","o","r","i","z","a","t","i","o","n",":"," ","B","e","a","r","e","r"," ">>

HdrLowerScheme == <<"P","r","o","x","y","-","A","u","t","h","o","r","i","z","a","t","i","o","n",":"," ","b","a","s","i","c"," ">>

HdrEmpty == <<"P","r","o","x","y","-","A","u","t","h","o","r","i","z","a","t","i","o","n",":"," "," ">>

\* a request: its lines, each followed by CRLF, an empty line, and a body
RECURSIVE JoinLines(_)
JoinLines(lines) == IF lines = <<>> THEN <<>> ELSE Head(lines) \o CRLF \o JoinLines(Tail(lines))

RequestText(lines, body) == JoinLines(lines) \o CRLF \o body

ReqConnect == RequestText(<<LineConnect, HdrBasic \o TokValid>>, <<>>)

ReqGet == RequestText(<<LineGet, LineHost, HdrBasic \o TokValid>>, <<>>)

ReqGetNoPath == RequestText(<<LineGetNoPath, HdrBasicLower \o TokValid>>, <<>>)

ReqGetHostPort == RequestText(<<LineGetHostPort, HdrBasic \o TokValid>>, <<>>)

ReqRelative == RequestText(<<LineRelative, HdrBasic \o TokValid>>, <<>>)

ReqNoAuth == RequestText(<<LineGet, LineHost>>, <<>>)

ReqNoAuthConnect == RequestText(<<LineConnect>>, <<>>)

ReqNoAuthRelative == RequestText(<<LineRelative>>, <<>>)

ReqBodyAuth == RequestText(<<LinePost, LineHost>>, HdrBasic \o TokValid)

ReqLineAuth == RequestText(<<HdrBasicLower \o TokValid, HdrBasic \o TokWrongPw>>, <<>>)

ReqLineAuthOnly == RequestText(<<HdrBasicLower \o TokValid, LineHost>>, <<>>)

ReqWrongPw == RequestText(<<LineConnect, HdrBasic \o TokWrongPw>>, <<>>)

ReqUnknownUser == RequestText(<<LineGet, HdrBasic \o TokUnknownUser>>, <<>>)

ReqNotBasic == RequestText(<<LineGet, HdrBearer \o TokValid>>, <<>>)

ReqLowerScheme == RequestText(<<LineGet, HdrLowerScheme \o TokValid>>, <<>>)

ReqBadPadding == RequestText(<<LineGet, HdrBasic \o TokBadPadding>>, <<>>)

ReqNoColon == RequestText(<<LineGet, HdrBasic \o TokNoColon>>, <<>>)

ReqExtraColon == RequestText(<<LineGet, HdrBasic \o TokExtraColon>>, <<>>)

ReqBadUtf8 == RequestText(<<LineConnect, HdrBasic \o TokBadUtf8>>, <<>>)

ReqEmptyValue == RequestText(<<LineGet, HdrEmpty>>, <<>>)

ReqTwoHeaders == RequestText(<<LineGet, HdrBasic \o TokWrongPw, HdrBasic \o TokValid>>, <<>>)

ReqTwoHeadersValidFirst == RequestText(<<LineConnect, HdrBasic \o TokValid, HdrBasic \o TokWrongPw>>, <<>>)

ReqLenient == RequestText(<<LineGet, HdrBasic \o TokLenient>>, <<>>)

ReqConnectNoPort == RequestText(<<LineConnectNoPort, HdrBasic \o TokValid>>, <<>>)

ReqConnectBadPort == RequestText(<<LineConnectBadPort, HdrBasic \o TokValid>>, <<>>)

ReqNoTarget == RequestText(<<LineNoTarget, HdrBasic \o TokValid>>, <<>>)

ReqNoTargetNoAuth == RequestText(<<LineNoTarget, LineHost>>, <<>>)

\* the texts a client may send as its request
RequestTexts ==
    {ReqConnect, ReqGet, ReqGetNoPath, ReqGetHostPort, ReqRelative, ReqNoAuth,
     ReqNoAuthConnect, ReqNoAuthRelative, ReqBodyAuth, ReqLineAuth, ReqLineAuthOnly,
     ReqWrongPw, ReqUnknownUser, ReqNotBasic, ReqLowerScheme, ReqBadPadding,
     ReqNoColon, ReqExtraColon, ReqBadUtf8, ReqEmptyValue, ReqTwoHeaders,
     ReqTwoHeadersValidFirst, ReqLenient, ReqConnectNoPort, ReqConnectBadPort,
     ReqNoTarget, ReqNoTargetNoAuth}

\* a request that is not UTF-8: the byte 0xFF in front of a request line
BytesNotUtf8 == <<255>> \o Utf8Encode(LineGet \o CRLF \o CRLF)

\* the byte buffers a client may send as its request
AllRequests == {Utf8Encode(t) : t \in RequestTexts} \cup {BytesNotUtf8}


(***************************************************************************)
(* State                                                                   *)
(***************************************************************************)

\* connections the model lets arrive
MaxSessions == 2

\* what the peers may do besides sending the requests: the number of times
\* one of them sends a buffer of data, closes its end or resets it
MaxEvents == 3

Sessions == 1..MaxSessions

\* the two copy tasks of a tunnel: client -> upstream and upstream -> client
Directions == {"c2s", "s2c"}

VARIABLES
    VALID_USERS,  \* the module-level credential table
    listening,    \* main: the listening socket is open and the accept loop runs
    arrivals,     \* connections that have not arrived yet
    inputs,       \* the request buffers clients send
    exited,       \* the process has exited
    events,       \* what the peers may still do besides sending the requests
    hpc,          \* per session: the line its handler thread is at
    request,      \* handle_client: the decoded request
    dial,         \* forward_request: host and port
    reply,        \* forward_request: the buffer received from the upstream
    hlog,         \* per session: the socket calls its handler thread has made
    csock,        \* the client socket object: "none", "open", "closed"
    ssock,        \* the upstream socket object: "none", "created", "connected", "closed"
    tpc,          \* per session and direction: where the copy task is
    tbuf,         \* per session and direction: the data the copy task holds
    tsaw,         \* per session and direction: what ended the copy loop
    cpeer,        \* the client's end: "none", "up", "closed" (FIN), "reset"
    cin,          \* buffers sent by the client, not yet received by the proxy
    csent,        \* every buffer the client has sent
    cout,         \* every buffer the proxy has sent to the client
    speer,        \* the upstream's end: "none", "up", "closed", "reset"
    sin,          \* buffers sent by the upstream, not yet received
    ssent,        \* every buffer the upstream has sent
    sout          \* every buffer the proxy has sent to the upstream

mainVars == <<VALID_USERS, listening, arrivals, inputs, exited>>
envVars == <<events>>
handlerVars == <<hpc, request, dial, reply, hlog>>
sockVars == <<csock, ssock>>
taskVars == <<tpc, tbuf, tsaw>>
clientVars == <<cpeer, cin, csent, cout>>
upstreamVars == <<speer, sin, ssent, sout>>
vars == <<mainVars, envVars, handlerVars, sockVars, taskVars, clientVars, upstreamVars>>

NoDial == [host |-> <<>>, port |-> 0]

\* the state of the process when main enters its accept loop, with n
\* connections to come whose clients send requests out of reqs, and peers
\* that send data, close or reset ne times at most
InitWith(n, reqs, ne) ==
    /\ VALID_USERS = InitialUsers
    /\ listening = TRUE
    /\ arrivals = n
    /\ inputs = reqs
    /\ exited = FALSE
    /\ events = ne
    /\ hpc = [s \in Sessions |-> "none"]
    /\ request = [s \in Sessions |-> <<>>]
    /\ dial = [s \in Sessions |-> NoDial]
    /\ reply = [s \in Sessions |-> <<>>]
    /\ hlog = [s \in Sessions |-> <<>>]
    /\ csock = [s \in Sessions |-> "none"]
    /\ ssock = [s \in Sessions |-> "none"]
    /\ tpc = [s \in Sessions |-> [d \in Directions |-> "none"]]
    /\ tbuf = [s \in Sessions |-> [d \in Directions |-> <<>>]]
    /\ tsaw = [s \in Sessions |-> [d \in Directions |-> "none"]]
    /\ cpeer = [s \in Sessions |-> "none"]
    /\ cin = [s \in Sessions |-> <<>>]
    /\ csent = [s \in Sessions |-> <<>>]
    /\ cout = [s \in Sessions |-> <<>>]
    /\ speer = [s \in Sessions |-> "none"]
    /\ sin = [s \in Sessions |-> <<>>]
    /\ ssent = [s \in Sessions |-> <<>>]
    /\ sout = [s \in Sessions |-> <<>>]

\* one connection, any request
Init == InitWith(1, AllRequests, MaxEvents)

\* one record of hlog: the call, the socket, what was passed or returned, and
\* how the call ended
Ev(call, sock, what, res) == <<call, sock, what, res>>

Log(s, e) == hlog' = [hlog EXCEPT ![s] = Append(@, e)]

Goto(s, l) == hpc' = [hpc EXCEPT ![s] = l]

\* the k-th data buffer of a client, of an upstream
ClientData(k) == <<200 + k>>

UpstreamData(k) == <<100 + k>>

\* socket.recv(4096) on a buffer that arrived: at most BUFSIZE bytes of it
RecvTake(buf) == IF Len(buf) > BUFSIZE THEN SubSeq(buf, 1, BUFSIZE) ELSE buf

\* what recv leaves in the queue
RecvRest(q) ==
    IF Len(Head(q)) > BUFSIZE THEN <<DropFirst(Head(q), BUFSIZE)>> \o Tail(q) ELSE Tail(q)

(***************************************************************************)
(* main: the accept loop                                                   *)
(***************************************************************************)

\* an accept loop that serves one connection at a time: the next one is
\* accepted when the handlers of the earlier ones have ended
AcceptInTurn(s) ==
    /\ listening
    /\ arrivals > 0
    /\ hpc[s] = "none"
    /\ \A t \in Sessions : t < s => hpc[t] = "done"
    /\ arrivals' = arrivals - 1
    /\ Goto(s, "l15")
    /\ csock' = [csock EXCEPT ![s] = "open"]
    /\ cpeer' = [cpeer EXCEPT ![s] = "up"]
    /\ UNCHANGED <<VALID_USERS, listening, inputs, exited, envVars, request, dial, reply, hlog, ssock,
                   taskVars, cin, csent, cout, upstreamVars>>

\* accept() returns the next connection and a handler thread is started
Accept(s) ==
    /\ listening
    /\ arrivals > 0
    /\ hpc[s] = "none"
    /\ \A t \in Sessions : t < s => hpc[t] # "none"
    /\ arrivals' = arrivals - 1
    /\ Goto(s, "l15")
    /\ csock' = [csock EXCEPT ![s] = "open"]
    /\ cpeer' = [cpeer EXCEPT ![s] = "up"]
    /\ UNCHANGED <<VALID_USERS, listening, inputs, exited, envVars, request, dial, reply, hlog, ssock,
                   taskVars, cin, csent, cout, upstreamVars>>

\* KeyboardInterrupt: the listening socket is closed and main returns
Interrupt ==
    /\ listening
    /\ listening' = FALSE
    /\ UNCHANGED <<VALID_USERS, arrivals, inputs, exited, envVars, handlerVars, sockVars, taskVars,
                   clientVars, upstreamVars>>

\* the process exits: main has returned and every thread it started, none
\* of them a daemon thread, has ended
Exit ==
    /\ ~listening
    /\ ~exited
    /\ \A s \in Sessions :
           /\ hpc[s] \in {"none", "done"}
           /\ \A d \in Directions : tpc[s][d] \in {"none", "done"}
    /\ exited' = TRUE
    /\ UNCHANGED <<VALID_USERS, listening, arrivals, inputs, envVars, handlerVars, sockVars,
                   taskVars, clientVars, upstreamVars>>

(***************************************************************************)
(* The peers                                                               *)
(***************************************************************************)

\* the proxy's end of the client connection still exists: its socket object
\* is open, or a copy task is blocked in recv on it
ClientEndAlive(s) == csock[s] = "open" \/ tpc[s]["c2s"] = "wait"

UpstreamEndAlive(s) == ssock[s] = "connected" \/ tpc[s]["s2c"] = "wait"

\* a peer sends a buffer of data, closes its end or resets it
SpendEvent == events > 0 /\ events' = events - 1

\* the client sends its request, then data
ClientSend(s) ==
    /\ cpeer[s] = "up"
    /\ ClientEndAlive(s)
    /\ IF csent[s] = <<>>
       THEN /\ \E buf \in inputs :
                 /\ cin' = [cin EXCEPT ![s] = Append(@, buf)]
                 /\ csent' = [csent EXCEPT ![s] = Append(@, buf)]
            /\ UNCHANGED envVars
       ELSE /\ SpendEvent
            /\ cin' = [cin EXCEPT ![s] = Append(@, ClientData(Len(csent[s])))]
            /\ csent' = [csent EXCEPT ![s] = Append(@, ClientData(Len(csent[s])))]
    /\ UNCHANGED <<mainVars, handlerVars, sockVars, taskVars, cpeer, cout, upstreamVars>>

\* the client closes its end (end-of-stream for the proxy)
ClientClose(s) ==
    /\ cpeer[s] = "up"
    /\ ClientEndAlive(s)
    /\ SpendEvent
    /\ cpeer' = [cpeer EXCEPT ![s] = "closed"]
    /\ UNCHANGED <<mainVars, handlerVars, sockVars, taskVars, cin, csent, cout, upstreamVars>>

\* the client connection is reset: what was not received is lost
ClientReset(s) ==
    /\ cpeer[s] \in {"up", "closed"}
    /\ ClientEndAlive(s)
    /\ SpendEvent
    /\ cpeer' = [cpeer EXCEPT ![s] = "reset"]
    /\ cin' = [cin EXCEPT ![s] = <<>>]
    /\ UNCHANGED <<mainVars, handlerVars, sockVars, taskVars, csent, cout, upstreamVars>>

\* the upstream sends a buffer
UpstreamSend(s) ==
    /\ speer[s] = "up"
    /\ UpstreamEndAlive(s)
    /\ SpendEvent
    /\ sin' = [sin EXCEPT ![s] = Append(@, UpstreamData(Len(ssent[s]) + 1))]
    /\ ssent' = [ssent EXCEPT ![s] = Append(@, UpstreamData(Len(ssent[s]) + 1))]
    /\ UNCHANGED <<mainVars, handlerVars, sockVars, taskVars, clientVars, speer, sout>>

\* the upstream closes its end
UpstreamClose(s) ==
    /\ speer[s] = "up"
    /\ UpstreamEndAlive(s)
    /\ SpendEvent
    /\ speer' = [speer EXCEPT ![s] = "closed"]
    /\ UNCHANGED <<mainVars, handlerVars, sockVars, taskVars, clientVars, sin, ssent, sout>>

\* the upstream connection is reset
UpstreamReset(s) ==
    /\ speer[s] \in {"up", "closed"}
    /\ UpstreamEndAlive(s)
    /\ SpendEvent
    /\ speer' = [speer EXCEPT ![s] = "reset"]
    /\ sin' = [sin EXCEPT ![s] = <<>>]
    /\ UNCHANGED <<mainVars, handlerVars, sockVars, taskVars, clientVars, ssent, sout>>

(***************************************************************************)
(* handle_client                                                           *)
(***************************************************************************)

\* client_socket.send(buf) by the handler thread at line `at`: the call
\* returns (and the handler goes on at `next`) or raises (and the handler
\* goes to the except clause `handler`); it can raise only when the client
\* has closed or reset the connection
HandlerSendClient(s, at, what, buf, next, handler) ==
    /\ hpc[s] = at
    /\ \/ /\ cpeer[s] \in {"up", "closed"}
          /\ cout' = [cout EXCEPT ![s] = Append(@, buf)]
          /\ Log(s, Ev("send", "client", what, "ok"))
          /\ Goto(s, next)
       \/ /\ cpeer[s] \in {"closed", "reset"}
          /\ cout' = cout
          /\ Log(s, Ev("send", "client", what, "error"))
          /\ Goto(s, handler)
    /\ UNCHANGED <<mainVars, envVars, request, dial, reply, sockVars, taskVars, cpeer, cin, csent,
                   upstreamVars>>

\* client_socket.close() by the handler thread at line `at`, which ends
\* handle_client (and forward_request, when called from there)
HandlerCloseClient(s, at) ==
    /\ hpc[s] = at
    /\ csock' = [csock EXCEPT ![s] = "closed"]
    /\ Log(s, Ev("close", "client", "", at))
    /\ Goto(s, "done")
    /\ UNCHANGED <<mainVars, envVars, request, dial, reply, ssock, taskVars, clientVars, upstreamVars>>

\* line 15: request = client_socket.recv(4096).decode('utf-8')
Recv15(s) ==
    /\ hpc[s] = "l15"
    /\ \/ /\ cpeer[s] = "reset"
          /\ Log(s, Ev("recv", "client", "", "error"))
          /\ Goto(s, "l73")
          /\ UNCHANGED <<request, cin>>
       \/ /\ cpeer[s] # "reset"
          /\ cin[s] # <<>>
          /\ LET text == Utf8Decode(RecvTake(Head(cin[s])))
             IN  /\ cin' = [cin EXCEPT ![s] = RecvRest(@)]
                 /\ Log(s, Ev("recv", "client", "request", "ok"))
                 /\ IF text.ok
                    THEN request' = [request EXCEPT ![s] = text.val] /\ Goto(s, "l17")
                    ELSE request' = request /\ Goto(s, "l73")
       \/ /\ cpeer[s] = "closed"
          /\ cin[s] = <<>>
          /\ Log(s, Ev("recv", "client", "", "eof"))
          /\ Goto(s, "l17")
          /\ UNCHANGED <<request, cin>>
    /\ UNCHANGED <<mainVars, envVars, dial, reply, sockVars, taskVars, cpeer, csent, cout, upstreamVars>>

\* lines 17-57: the empty-request test, the header scan and the credential
\* check, up to the call of forward_request
Authenticate(s) ==
    /\ hpc[s] = "l17"
    /\ IF request[s] = <<>> THEN Goto(s, "l18") /\ hlog' = hlog
       ELSE LET d == AuthDecision(request[s], VALID_USERS)
            IN  IF d = "l54"
                THEN Log(s, Ev("call", "forward_request", "", "")) /\ Goto(s, "l78")
                ELSE Goto(s, d) /\ hlog' = hlog
    /\ UNCHANGED <<mainVars, envVars, request, dial, reply, sockVars, taskVars, clientVars, upstreamVars>>

\* lines 18-19: an empty request closes the connection
Close18(s) == HandlerCloseClient(s, "l18")

\* line 41: the 407 of a request without header value
Send407Required(s) ==
    HandlerSendClient(s, "l41", "407", Bytes407Required, "l42", "l73")

\* lines 42-43
Close42(s) == HandlerCloseClient(s, "l42")

\* a handler that, having sent the 407, reads the next request of the same
\* connection
Send407InvalidRetry(s) ==
    HandlerSendClient(s, "l68", "407", Bytes407Invalid, "l15", "l73")

\* line 68: the 407 of a request with a header value that is not accepted
Send407Invalid(s) ==
    HandlerSendClient(s, "l68", "407", Bytes407Invalid, "l69", "l73")

\* line 69
Close69(s) == HandlerCloseClient(s, "l69")

\* an except clause that only reports the error and leaves the client
\* socket open
Except73NoClose(s) ==
    /\ hpc[s] = "l73"
    /\ Goto(s, "done")
    /\ UNCHANGED <<mainVars, envVars, request, dial, reply, hlog, sockVars, taskVars, clientVars,
                   upstreamVars>>

\* lines 71-73: the except clause of handle_client
Except73(s) == HandlerCloseClient(s, "l73")

(***************************************************************************)
(* forward_request                                                         *)
(***************************************************************************)

\* lines 78-93: the target is extracted from the request line
ExtractTarget(s) ==
    /\ hpc[s] = "l78"
    /\ LET t == ParseTarget(Split(request[s], CRLF)[1])
       IN  /\ dial' = [dial EXCEPT ![s] = [host |-> t.host, port |-> t.port]]
           /\ Goto(s, CASE t.kind = "dial" -> "l99"
                        [] t.kind = "bad" -> "l94"
                        [] OTHER -> "l119")
    /\ UNCHANGED <<mainVars, envVars, request, reply, hlog, sockVars, taskVars, clientVars, upstreamVars>>

\* line 94
Send400(s) == HandlerSendClient(s, "l94", "400", Bytes400, "l95", "l119")

\* lines 95-96
Close95(s) == HandlerCloseClient(s, "l95")

\* line 99: server_socket = socket.socket(...)
CreateSocket(s) ==
    /\ hpc[s] = "l99"
    /\ ssock' = [ssock EXCEPT ![s] = "created"]
    /\ Log(s, Ev("socket", "upstream", "", "ok"))
    /\ Goto(s, "l100")
    /\ UNCHANGED <<mainVars, envVars, request, dial, reply, csock, taskVars, clientVars, upstreamVars>>

\* a connect whose failure is not noticed: the handler goes on as if the
\* connection were there
ConnectUnchecked(s) ==
    /\ hpc[s] = "l100"
    /\ \/ /\ dial[s].port \in 0..65535
          /\ ssock' = [ssock EXCEPT ![s] = "connected"]
          /\ speer' = [speer EXCEPT ![s] = "up"]
          /\ Log(s, Ev("connect", "upstream", "", "ok"))
       \/ /\ UNCHANGED <<ssock, speer>>
          /\ Log(s, Ev("connect", "upstream", "", "error"))
    /\ Goto(s, IF IsConnect(Split(request[s], CRLF)[1]) THEN "l104" ELSE "l109")
    /\ UNCHANGED <<mainVars, envVars, request, dial, reply, csock, taskVars, clientVars, sin, ssent, sout>>

\* line 100: server_socket.connect((host, port)); it raises when the name does
\* not resolve, the port is out of range or the target does not answer
Connect(s) ==
    /\ hpc[s] = "l100"
    /\ \/ /\ dial[s].port \in 0..65535
          /\ ssock' = [ssock EXCEPT ![s] = "connected"]
          /\ speer' = [speer EXCEPT ![s] = "up"]
          /\ Log(s, Ev("connect", "upstream", "", "ok"))
          /\ Goto(s, IF IsConnect(Split(request[s], CRLF)[1]) THEN "l104" ELSE "l109")
       \/ /\ UNCHANGED <<ssock, speer>>
          /\ Log(s, Ev("connect", "upstream", "", "error"))
          /\ Goto(s, "l119")
    /\ UNCHANGED <<mainVars, envVars, request, dial, reply, csock, taskVars, clientVars, sin, ssent, sout>>

\* line 104
Send200(s) == HandlerSendClient(s, "l104", "200", Bytes200, "l106", "l119")

\* line 106, lines 136-137: tunnel_data starts the two copy threads and returns
StartTunnel(s) ==
    /\ hpc[s] = "l106"
    /\ tpc' = [tpc EXCEPT ![s] = [d \in Directions |-> "l125"]]
    /\ Log(s, Ev("call", "tunnel_data", "", ""))
    /\ Goto(s, "l114")
    /\ UNCHANGED <<mainVars, envVars, request, dial, reply, sockVars, tbuf, tsaw, clientVars, upstreamVars>>

\* line 109: server_socket.send(original_request.encode())
SendRequest(s) ==
    /\ hpc[s] = "l109"
    /\ \/ /\ speer[s] \in {"up", "closed"}
          /\ sout' = [sout EXCEPT ![s] = Append(@, Utf8Encode(request[s]))]
          /\ Log(s, Ev("send", "upstream", "request", "ok"))
          /\ Goto(s, "l111")
       \/ /\ speer[s] \in {"closed", "reset"}
          /\ sout' = sout
          /\ Log(s, Ev("send", "upstream", "request", "error"))
          /\ Goto(s, "l119")
    /\ UNCHANGED <<mainVars, envVars, request, dial, reply, sockVars, taskVars, clientVars, speer, sin,
                   ssent>>

\* line 111: response = server_socket.recv(4096)
RecvReply(s) ==
    /\ hpc[s] = "l111"
    /\ \/ /\ speer[s] = "reset"
          /\ Log(s, Ev("recv", "upstream", "", "error"))
          /\ Goto(s, "l119")
          /\ UNCHANGED <<reply, sin>>
       \/ /\ speer[s] # "reset"
          /\ sin[s] # <<>>
          /\ reply' = [reply EXCEPT ![s] = RecvTake(Head(sin[s]))]
          /\ sin' = [sin EXCEPT ![s] = RecvRest(@)]
          /\ Log(s, Ev("recv", "upstream", "reply", "ok"))
          /\ Goto(s, "l112")
       \/ /\ speer[s] = "closed"
          /\ sin[s] = <<>>
          /\ Log(s, Ev("recv", "upstream", "", "eof"))
          /\ Goto(s, "l112")
          /\ UNCHANGED <<reply, sin>>
    /\ UNCHANGED <<mainVars, envVars, request, dial, sockVars, taskVars, clientVars, speer, ssent, sout>>

\* a relay that goes back to read the upstream again after each send
SendReplyUntilEof(s) == HandlerSendClient(s, "l112", "reply", reply[s], "l111", "l119")

\* line 112: client_socket.send(response)
SendReply(s) == HandlerSendClient(s, "l112", "reply", reply[s], "l114", "l119")

\* line 114: server_socket.close()
CloseServer114(s) ==
    /\ hpc[s] = "l114"
    /\ ssock' = [ssock EXCEPT ![s] = "closed"]
    /\ Log(s, Ev("close", "upstream", "", "l114"))
    /\ Goto(s, "l115")
    /\ UNCHANGED <<mainVars, envVars, request, dial, reply, csock, taskVars, clientVars, upstreamVars>>

\* line 115
Close115(s) == HandlerCloseClient(s, "l115")

\* an except clause out of which the error goes on to end the accept loop
Except119Propagates(s) ==
    /\ hpc[s] = "l119"
    /\ csock' = [csock EXCEPT ![s] = "closed"]
    /\ Log(s, Ev("close", "client", "", "l119"))
    /\ Goto(s, "done")
    /\ listening' = FALSE
    /\ UNCHANGED <<VALID_USERS, arrivals, inputs, exited, envVars, request, dial, reply, ssock, taskVars,
                   clientVars, upstreamVars>>

\* a forward_request that does not catch: the exception reaches the bare
\* except of handle_client, which goes on to the second 407
Except119FallsThrough(s) ==
    /\ hpc[s] = "l119"
    /\ Goto(s, "l68")
    /\ UNCHANGED <<mainVars, envVars, request, dial, reply, hlog, sockVars, taskVars, clientVars,
                   upstreamVars>>

\* lines 117-119: the except clause of forward_request closes the client
\* socket and forward_request returns.  It does not close server_socket:
\* when that socket exists it goes out of scope unclosed, and whether its
\* descriptor is released then is up to the interpreter's garbage
\* collector (reference counting releases it at the return, other
\* collectors later or never)
Except119(s) ==
    /\ hpc[s] = "l119"
    /\ csock' = [csock EXCEPT ![s] = "closed"]
    /\ \/ ssock' = ssock
       \/ /\ ssock[s] \in {"created", "connected"}
          /\ ssock' = [ssock EXCEPT ![s] = "closed"]
    /\ Log(s, Ev("close", "client", "", "l119"))
    /\ Goto(s, "done")
    /\ UNCHANGED <<mainVars, envVars, request, dial, reply, taskVars, clientVars, upstreamVars>>


(***************************************************************************)
(* tunnel_data: forward_data(source, destination), one thread a direction  *)
(***************************************************************************)

\* the socket object a copy task reads from is open
SourceOpen(s, d) == IF d = "c2s" THEN csock[s] = "open" ELSE ssock[s] = "connected"

\* the socket object a copy task writes to is open
DestOpen(s, d) == IF d = "c2s" THEN ssock[s] = "connected" ELSE csock[s] = "open"

SourcePeer(s, d) == IF d = "c2s" THEN cpeer[s] ELSE speer[s]

DestPeer(s, d) == IF d = "c2s" THEN speer[s] ELSE cpeer[s]

SourceQueue(s, d) == IF d = "c2s" THEN cin[s] ELSE sin[s]

TaskAt(s, d, l) == tpc' = [tpc EXCEPT ![s][d] = l]

\* the copy loop ends: what ended it is recorded and the finally clause runs
TaskEnds(s, d, why) ==
    /\ tsaw' = [tsaw EXCEPT ![s][d] = why]
    /\ TaskAt(s, d, "l132")
    /\ UNCHANGED <<tbuf, cin, sin>>

\* source.recv(4096) returns a buffer, returns b'' (end of stream) or raises
\* because the peer reset the connection
RecvReturns(s, d) ==
    \/ /\ SourcePeer(s, d) = "reset"
       /\ TaskEnds(s, d, "peer")
    \/ /\ SourcePeer(s, d) # "reset"
       /\ SourceQueue(s, d) # <<>>
       /\ tbuf' = [tbuf EXCEPT ![s][d] = RecvTake(Head(SourceQueue(s, d)))]
       /\ IF d = "c2s"
          THEN cin' = [cin EXCEPT ![s] = RecvRest(@)] /\ sin' = sin
          ELSE sin' = [sin EXCEPT ![s] = RecvRest(@)] /\ cin' = cin
       /\ TaskAt(s, d, "l128")
       /\ tsaw' = tsaw
    \/ /\ SourcePeer(s, d) = "closed"
       /\ SourceQueue(s, d) = <<>>
       /\ TaskEnds(s, d, "eof")

\* line 125: data = source.recv(4096) is called.  On a socket object that is
\* already closed it raises at once; otherwise it returns what is there, or
\* the thread blocks in the call ("wait").
TaskRecv(s, d) ==
    /\ tpc[s][d] = "l125"
    /\ IF ~SourceOpen(s, d) THEN TaskEnds(s, d, "local")
       ELSE \/ RecvReturns(s, d)
            \/ /\ SourcePeer(s, d) = "up"
               /\ SourceQueue(s, d) = <<>>
               /\ TaskAt(s, d, "wait")
               /\ UNCHANGED <<tbuf, tsaw, cin, sin>>
    /\ UNCHANGED <<mainVars, envVars, handlerVars, sockVars, cpeer, csent, cout, speer, ssent, sout>>

\* a blocked recv returns when the peer sends, closes or resets
TaskRecvWakes(s, d) ==
    /\ tpc[s][d] = "wait"
    /\ RecvReturns(s, d)
    /\ UNCHANGED <<mainVars, envVars, handlerVars, sockVars, cpeer, csent, cout, speer, ssent, sout>>

\* a blocked recv whose socket object another thread has closed meanwhile:
\* whether the close interrupts the call depends on the platform, so the
\* call may raise now or stay blocked until the peer acts
TaskRecvAborted(s, d) ==
    /\ tpc[s][d] = "wait"
    /\ ~SourceOpen(s, d)
    /\ TaskEnds(s, d, "local")
    /\ UNCHANGED <<mainVars, envVars, handlerVars, sockVars, cpeer, csent, cout, speer, ssent, sout>>

\* line 128: destination.send(data)
TaskSend(s, d) ==
    /\ tpc[s][d] = "l128"
    /\ IF ~DestOpen(s, d) THEN TaskEnds(s, d, "local") /\ UNCHANGED <<cout, sout>>
       ELSE \/ /\ DestPeer(s, d) \in {"up", "closed"}
               /\ IF d = "c2s"
                  THEN sout' = [sout EXCEPT ![s] = Append(@, tbuf[s][d])] /\ cout' = cout
                  ELSE cout' = [cout EXCEPT ![s] = Append(@, tbuf[s][d])] /\ sout' = sout
               /\ TaskAt(s, d, "l125")
               /\ UNCHANGED <<tbuf, tsaw, cin, sin>>
            \/ /\ DestPeer(s, d) \in {"closed", "reset"}
               /\ TaskEnds(s, d, "peer")
               /\ UNCHANGED <<cout, sout>>
    /\ UNCHANGED <<mainVars, envVars, handlerVars, sockVars, cpeer, csent, speer, ssent>>

\* line 132: source.close()
TaskCloseSource(s, d) ==
    /\ tpc[s][d] = "l132"
    /\ IF d = "c2s"
       THEN csock' = [csock EXCEPT ![s] = "closed"] /\ ssock' = ssock
       ELSE ssock' = [ssock EXCEPT ![s] = "closed"] /\ csock' = csock
    /\ TaskAt(s, d, "l133")
    /\ UNCHANGED <<mainVars, envVars, handlerVars, tbuf, tsaw, clientVars, upstreamVars>>

\* a copy thread whose destination is one socket shared by every session
TaskCloseDestShared(s, d) ==
    /\ tpc[s][d] = "l133"
    /\ IF d = "c2s"
       THEN ssock' = [t \in Sessions |-> IF ssock[t] = "none" THEN "none" ELSE "closed"]
            /\ csock' = csock
       ELSE csock' = [t \in Sessions |-> IF csock[t] = "none" THEN "none" ELSE "closed"]
            /\ ssock' = ssock
    /\ TaskAt(s, d, "done")
    /\ UNCHANGED <<mainVars, envVars, handlerVars, tbuf, tsaw, clientVars, upstreamVars>>

\* line 133: destination.close(); the thread ends
TaskCloseDest(s, d) ==
    /\ tpc[s][d] = "l133"
    /\ IF d = "c2s"
       THEN ssock' = [ssock EXCEPT ![s] = "closed"] /\ csock' = csock
       ELSE csock' = [csock EXCEPT ![s] = "closed"] /\ ssock' = ssock
    /\ TaskAt(s, d, "done")
    /\ UNCHANGED <<mainVars, envVars, handlerVars, tbuf, tsaw, clientVars, upstreamVars>>

(***************************************************************************)
(* Specification                                                           *)
(***************************************************************************)

\* a step of the handler thread of session s
HandlerStep(s) ==
    \/ Recv15(s) \/ Authenticate(s) \/ Close18(s)
    \/ Send407Required(s) \/ Close42(s) \/ Send407Invalid(s) \/ Close69(s) \/ Except73(s)
    \/ ExtractTarget(s) \/ Send400(s) \/ Close95(s)
    \/ CreateSocket(s) \/ Connect(s) \/ Send200(s) \/ StartTunnel(s)
    \/ SendRequest(s) \/ RecvReply(s) \/ SendReply(s)
    \/ CloseServer114(s) \/ Close115(s) \/ Except119(s)

\* a step of one of the copy threads of session s that the thread takes as
\* soon as it is scheduled
TaskStep(s, d) ==
    \/ TaskRecv(s, d) \/ TaskRecvWakes(s, d) \/ TaskSend(s, d)
    \/ TaskCloseSource(s, d) \/ TaskCloseDest(s, d)

\* a step of the peers of session s, while there is a process to talk to
PeerStep(s) ==
    /\ ~exited
    /\ \/ ClientSend(s) \/ ClientClose(s) \/ ClientReset(s)
       \/ UpstreamSend(s) \/ UpstreamClose(s) \/ UpstreamReset(s)

Next ==
    \/ \E s \in Sessions : Accept(s)
    \/ Interrupt
    \/ Exit
    \/ \E s \in Sessions : HandlerStep(s)
    \/ \E s \in Sessions : \E d \in Directions : TaskStep(s, d)
    \/ \E s \in Sessions : \E d \in Directions : TaskRecvAborted(s, d)
    \/ \E s \in Sessions : PeerStep(s)

Spec == Init /\ [][Next]_vars

\* the requests of the concurrent sessions: one for each way through
\* handle_client and forward_request that ends in a response or a tunnel
ConcurrentRequests ==
    {Utf8Encode(ReqConnect), Utf8Encode(ReqGet), Utf8Encode(ReqNoAuth),
     Utf8Encode(ReqWrongPw), Utf8Encode(ReqRelative)}

\* MaxSessions connections, with peers of which one sends data, closes or
\* resets once
InitMany == InitWith(MaxSessions, ConcurrentRequests, 1)

SpecMany == InitMany /\ [][Next]_vars


\* requests of concurrent sessions that fail: ConcurrentRequests, a request
\* line without target (IndexError at line 85), a CONNECT target without
\* port (ValueError at line 81) and bytes that are not UTF-8 (line 15)
FaultRequests ==
    ConcurrentRequests \cup {Utf8Encode(ReqNoTarget), Utf8Encode(ReqConnectNoPort), BytesNotUtf8}

InitFaults == InitWith(MaxSessions, FaultRequests, 1)

SpecFaults == InitFaults /\ [][Next]_vars

\* the steps of the handler thread from the start of the tunnel on
HandlerTail(s) == StartTunnel(s) \/ CloseServer114(s) \/ Close115(s) \/ Except119(s)

\* Thread scheduling is fair: once a tunnel is started, the handler thread
\* and each copy thread take their next step whenever they can take one.
\* Nothing is assumed of the peers, nor of a recv that is blocked on a
\* socket object closed by another thread.
FairSpec ==
    /\ Init
    /\ [][Next]_vars
    /\ \A s \in Sessions : WF_vars(HandlerTail(s))
    /\ \A s \in Sessions : \A d \in Directions : WF_vars(TaskStep(s, d))

(***************************************************************************)
(* Vocabulary of the properties                                            *)
(***************************************************************************)

\* the calls of the handler of session s with this name on this socket
Calls(s, call, sock) ==
    {i \in 1..Len(hlog[s]) : hlog[s][i][1] = call /\ hlog[s][i][2] = sock}

\* handle_client has called forward_request
Forwarded(s) == Calls(s, "call", "forward_request") # {}

\* the handler has called client_socket.send with this response
SentToClient(s, what) == \E i \in Calls(s, "send", "client") : hlog[s][i][3] = what

\* a call of the handler has raised
Raised(s) == {i \in 1..Len(hlog[s]) : hlog[s][i][4] = "error"}

\* the header section of a request: the lines after the request line, up to
\* the first empty line
HeaderSection(text) ==
    LET lines == Split(text, CRLF)
        empty == {i \in 2..Len(lines) : lines[i] = <<>>}
        end == IF empty = {} THEN Len(lines) + 1
               ELSE CHOOSE i \in empty : \A j \in empty : i <= j
    IN  SubSeq(lines, 2, end - 1)

\* the name of a header line, in lower case
HeaderName(line) == Lower(Split1(line, <<":">>)[1])

\* 'proxy-authorization'
AuthHeaderName == SubSeq(ProxyAuthPrefix, 1, Len(ProxyAuthPrefix) - 1)

\* the Proxy-Authorization headers of a request
AuthHeaders(text) ==
    SelectSeq(HeaderSection(text),
              LAMBDA line : Contains(line, <<":">>) /\ HeaderName(line) = AuthHeaderName)

\* the value of the first of them
AuthHeaderValue(text) == Strip(Split1(AuthHeaders(text)[1], <<":">>)[2])

\* the session was answered 407 and closed and went nowhere near an upstream
Rejected407(s) ==
    /\ ~Forwarded(s)
    /\ ssock[s] = "none"
    /\ sout[s] = <<>>
    /\ csock[s] = "closed" => SentToClient(s, "407")
    /\ hpc[s] = "done" => csock[s] = "closed"

\* C1: a session whose request carries no Proxy-Authorization header (no
\* line between the request line and the first empty line has that name) is
\* sent the 407, then its client socket is closed, and it never reaches
\* forward_request nor creates, dials or writes to an upstream socket.
C1_NoHeaderRejected ==
    \A s \in Sessions :
        (request[s] # <<>> /\ AuthHeaders(request[s]) = <<>>) => Rejected407(s)

\* C2: a session whose Proxy-Authorization value is present but does not
\* decode to the valid pair is sent the 407 and closed, and never calls
\* forward_request nor opens an upstream connection.
C2_InvalidCredentialsRejected ==
    \A s \in Sessions :
        (/\ request[s] # <<>>
         /\ AuthHeaders(request[s]) # <<>>
         /\ ~CredentialsValid(AuthHeaderValue(request[s]), VALID_USERS)) => Rejected407(s)

\* tunnel_data has started the copy tasks of the session
TunnelStarted(s) == tpc[s]["c2s"] # "none"

\* a copy task of the session has seen the end of its stream or an I/O error
\* caused by its peer
PeerEnded(s) == \E d \in Directions : tsaw[s][d] \in {"eof", "peer"}

\* C3: once the tunnel is established, the proxy closes neither the client
\* socket nor the upstream socket until a copy task has observed
\* end-of-stream or an I/O error caused by a peer.
C3_TunnelStaysOpen ==
    \A s \in Sessions :
        (TunnelStarted(s) /\ (csock[s] = "closed" \/ ssock[s] = "closed")) => PeerEnded(s)


\* the upstream connect of the session has failed
DialFailed(s) == \E i \in Calls(s, "connect", "upstream") : hlog[s][i][4] = "error"

\* C7: when the upstream connect fails, both the client socket and the
\* upstream socket end closed, and no byte is sent to the client.
C7_DialFailureClosesBoth ==
    \A s \in Sessions :
        (DialFailed(s) /\ hpc[s] = "done") =>
            /\ csock[s] = "closed"
            /\ ssock[s] = "closed"
            /\ cout[s] = <<>>
            /\ Calls(s, "send", "client") = {}

\* a call of the handler has raised after the upstream connection was
\* established
ErrorAfterConnect(s) ==
    \E i \in Raised(s) : \E j \in 1..(i - 1) : hlog[s][j] = Ev("connect", "upstream", "", "ok")

\* C8: when a send or recv raises after the upstream connection was
\* established, the handler closes both the client socket and the upstream
\* socket and repeats no operation.
C8_ErrorAfterConnectClosesBoth ==
    \A s \in Sessions :
        (ErrorAfterConnect(s) /\ hpc[s] = "done") =>
            /\ csock[s] = "closed"
            /\ ssock[s] = "closed"
            /\ \A i, j \in 1..Len(hlog[s]) :
                   (hlog[s][i][1] = hlog[s][j][1] /\ hlog[s][i][2] = hlog[s][j][2]) => i = j


\* the request line of the session
FirstLine(s) == Split(request[s], CRLF)[1]

\* the target of the request line, when it has one
HasTarget(s) == request[s] # <<>> /\ Len(SplitWs(FirstLine(s))) >= 2

Target(s) == SplitWs(FirstLine(s))[2]

\* the text of an absolute http URL between 'http://' and the first '/'
UrlHost(url) ==
    LET rest == SubSeq(url, Len(HttpScheme) + 1, Len(url))
        slash == {i \in 1..Len(rest) : rest[i] = "/"}
    IN  IF slash = {} THEN rest
        ELSE SubSeq(rest, 1, (CHOOSE i \in slash : \A j \in slash : i <= j) - 1)

\* an authenticated session with a request that is not a CONNECT and whose
\* target starts with 'http://'
PlainRelay(s) ==
    /\ Forwarded(s)
    /\ HasTarget(s)
    /\ ~IsConnect(FirstLine(s))
    /\ StartsWith(Target(s), HttpScheme)

\* what the first recv of the upstream returns: the first buffer the
\* upstream sent, or b'' when it closed without sending
FirstReply(s) == IF ssent[s] = <<>> THEN <<>> ELSE RecvTake(ssent[s][1])

\* the calls of a relay, in their order
RelaySteps ==
    << <<"recv", "client">>, <<"call", "forward_request">>, <<"socket", "upstream">>,
       <<"connect", "upstream">>, <<"send", "upstream">>, <<"recv", "upstream">>,
       <<"send", "client">>, <<"close", "upstream">>, <<"close", "client">> >>

\* a log that follows RelaySteps, cut short only by a call that raises, after
\* which nothing but the close of the client socket follows
InRelayOrder(log) ==
    /\ Len(log) <= Len(RelaySteps)
    /\ \A i \in 1..Len(log) :
           \/ <<log[i][1], log[i][2]>> = RelaySteps[i]
           \/ i > 1 /\ log[i - 1][4] = "error" /\ log[i] = Ev("close", "client", "", "l119")
    /\ \A i \in 1..Len(log) : log[i][4] = "error" => Len(log) <= i + 1

\* C4: an authenticated request that is not a CONNECT and whose target
\* starts with 'http://' is dialled at (host, 80), host being the text
\* between 'http://' and the first '/'; then, in this order and once each,
\* the request bytes are sent to the upstream, the upstream is read, the
\* buffer read is sent to the client and the upstream and the client socket
\* are closed; a call that raises cuts the sequence short, and neither the
\* client nor the upstream is read a second time.
C4_PlainRelayOnce ==
    \A s \in Sessions :
        PlainRelay(s) =>
            /\ InRelayOrder(hlog[s])
            /\ ~TunnelStarted(s)
            /\ ssock[s] # "none" => dial[s] = [host |-> UrlHost(Target(s)), port |-> 80]
            /\ sout[s] \in {<<>>, <<RecvTake(csent[s][1])>>}
            /\ (\E i \in Calls(s, "send", "upstream") : hlog[s][i][4] = "ok") => sout[s] # <<>>
            /\ cout[s] \in {<<>>, <<FirstReply(s)>>}
            /\ (\E i \in Calls(s, "send", "client") : hlog[s][i][4] = "ok") => cout[s] # <<>>
            /\ Cardinality(Calls(s, "recv", "client")) = 1
            /\ Cardinality(Calls(s, "recv", "upstream")) <= 1
            /\ (hpc[s] = "done" /\ Raised(s) = {}) =>
                   /\ Len(hlog[s]) = Len(RelaySteps)
                   /\ csock[s] = "closed"
                   /\ ssock[s] = "closed"

\* a relay has run to its end while the upstream had sent a second buffer,
\* which stays unread
C4_RelayDone ==
    \E s \in Sessions :
        /\ PlainRelay(s)
        /\ hpc[s] = "done"
        /\ Raised(s) = {}
        /\ Len(hlog[s]) = Len(RelaySteps)
        /\ Len(ssent[s]) = 2
        /\ sin[s] # <<>>
        /\ cout[s] = <<ssent[s][1]>>
        /\ sout[s] = <<csent[s][1]>>

\* a request line that does not start with 'CONNECT' and has a target that
\* does not start with 'http://'
BadTarget(s) ==
    /\ HasTarget(s)
    /\ ~IsConnect(FirstLine(s))
    /\ ~StartsWith(Target(s), HttpScheme)

\* the session is answered 400 and closed without an upstream socket
Answered400(s) ==
    /\ ssock[s] = "none"
    /\ sout[s] = <<>>
    /\ cout[s] \in {<<>>, <<Bytes400>>}
    /\ csock[s] = "closed" => SentToClient(s, "400")
    /\ hpc[s] = "done" => csock[s] = "closed"

\* C5 as stated: every request line whose method is not CONNECT and whose
\* target does not start with 'http://' is answered 400 and closed, and no
\* upstream socket is created or dialled for the session.
C5_BadTarget400 == \A s \in Sessions : BadTarget(s) => Answered400(s)

\* C5: every request line of an authenticated session (one for which
\* forward_request is called) that does not start with 'CONNECT' and has a
\* target that does not start with 'http://' is answered 400 and closed, and
\* no upstream socket is created or dialled for the session.
C5_AuthenticatedBadTarget400 ==
    \A s \in Sessions : (Forwarded(s) /\ BadTarget(s)) => Answered400(s)

\* an authenticated request with a relative target has been answered 400
C5_Answered ==
    \E s \in Sessions :
        /\ Forwarded(s)
        /\ BadTarget(s)
        /\ hpc[s] = "done"
        /\ cout[s] = <<Bytes400>>
        /\ csock[s] = "closed"

\* C6: once a copy task of an established tunnel has seen the end of its
\* stream or a failure of its peer, both copy tasks eventually end and both
\* the client and the upstream socket are closed.
C6_TunnelTearsDown ==
    \A s \in Sessions :
        PeerEnded(s) ~> (/\ csock[s] = "closed"
                         /\ ssock[s] = "closed"
                         /\ \A d \in Directions : tpc[s][d] = "done")

\* C9: forward_request is called at most once for a connection, the handler
\* reads the client socket at most once, and once the 407 is sent the
\* handler does nothing but close the client socket: it never reads a
\* further request nor evaluates credentials again.
C9_AuthenticatesOnce ==
    \A s \in Sessions :
        /\ Cardinality(Calls(s, "call", "forward_request")) <= 1
        /\ Cardinality(Calls(s, "recv", "client")) <= 1
        /\ \A i \in Calls(s, "send", "client") :
               hlog[s][i][3] = "407" =>
                   /\ ~Forwarded(s)
                   /\ ssock[s] = "none"
                   /\ hpc[s] \in {"l42", "l69", "l73", "done"}
                   /\ Len(hlog[s]) <= i + 1
                   /\ Len(hlog[s]) = i + 1 => hlog[s][i + 1][1] = "close"
                   /\ hpc[s] = "done" => csock[s] = "closed"

\* a session was sent the 407 and closed while a further buffer of its
\* client was waiting, which stays unread
C9_RejectedWithPendingData ==
    \E s \in Sessions :
        /\ SentToClient(s, "407")
        /\ hpc[s] = "done"
        /\ csock[s] = "closed"
        /\ cin[s] # <<>>
        /\ Len(csent[s]) = 2

\* everything that belongs to one session
SessionState(s) ==
    <<hpc[s], request[s], dial[s], reply[s], hlog[s], csock[s], ssock[s], tpc[s], tbuf[s],
      tsaw[s], cpeer[s], cin[s], csent[s], cout[s], speer[s], sin[s], ssent[s], sout[s]>>

\* C10: sessions are isolated: a step that changes anything of one session
\* changes nothing of any other session, and no step changes VALID_USERS.
C10_SessionsIsolated ==
    [][/\ VALID_USERS' = VALID_USERS
       /\ \A s \in Sessions :
              SessionState(s)' # SessionState(s) =>
                  \A t \in Sessions \ {s} : SessionState(t)' = SessionState(t)]_vars

\* two authenticated CONNECT sessions to the same target, one of which has
\* closed its sockets while the tunnel of the other is still up
C10_TwoTunnels ==
    \E s, t \in Sessions :
        /\ s # t
        /\ TunnelStarted(s)
        /\ TunnelStarted(t)
        /\ dial[s] = dial[t]
        /\ \A d \in Directions : tpc[s][d] = "done"
        /\ csock[s] = "closed" /\ ssock[s] = "closed"
        /\ csock[t] = "open" /\ ssock[t] = "connected"


\* the session has failed: a call of its handler raised, one of its except
\* clauses ran, or a copy task ended on an error
SessionFailed(s) ==
    \/ hpc[s] \in {"l73", "l119"}
    \/ \E i \in 1..Len(hlog[s]) : hlog[s][i][4] \in {"error", "l73", "l119"}
    \/ \E d \in Directions : tsaw[s][d] \in {"peer", "local"}

\* C11: no error of a session goes beyond the session: while a session has
\* failed the accept loop still accepts the next connection, and the loop
\* ends only in a step that is no step of a session (the interrupt).
C11_ErrorsStayInSession ==
    /\ []((listening /\ arrivals > 0 /\ \E s \in Sessions : SessionFailed(s))
              => ENABLED (\E t \in Sessions : Accept(t)))
    /\ [][(listening /\ ~listening') =>
              \A s \in Sessions : SessionState(s)' = SessionState(s)]_vars

\* a session has failed and ended, and the connection accepted after it was
\* authenticated and served to its end while the loop goes on
C11_ServedAfterFailure ==
    /\ SessionFailed(1)
    /\ hpc[1] = "done"
    /\ ~SessionFailed(2)
    /\ Forwarded(2)
    /\ hpc[2] = "done"
    /\ listening


\* the first receive of the session returned zero bytes
EmptyRequest(s) == hlog[s] # <<>> /\ hlog[s][1] = Ev("recv", "client", "", "eof")

\* the request line of the session has no space-separated target
NoTarget(s) == request[s] # <<>> /\ Len(SplitWs(FirstLine(s))) < 2

\* the client connection is closed without a byte sent to the client, and
\* nothing goes to an upstream
ClosedSilently(s) ==
    /\ cout[s] = <<>>
    /\ Calls(s, "send", "client") = {}
    /\ ssock[s] = "none"
    /\ sout[s] = <<>>
    /\ hpc[s] = "done" => csock[s] = "closed"

\* C12 as stated: a request that is empty or whose request line has no
\* target is closed silently: no byte is sent to the client and nothing is
\* forwarded to an upstream.
C12_MalformedClosedSilently ==
    \A s \in Sessions : (EmptyRequest(s) \/ NoTarget(s)) => ClosedSilently(s)

\* C12: a request that is empty, or that is authenticated (forward_request
\* is called) and whose request line has no target, is closed silently: no
\* byte is sent to the client and nothing is forwarded to an upstream.
C12_AuthenticatedMalformedClosedSilently ==
    \A s \in Sessions :
        (EmptyRequest(s) \/ (Forwarded(s) /\ NoTarget(s))) => ClosedSilently(s)

\* an authenticated request without target has been closed by the except
\* clause of forward_request
C12_ClosedWithoutAnswer ==
    \E s \in Sessions :
        /\ Forwarded(s)
        /\ NoTarget(s)
        /\ hpc[s] = "done"
        /\ csock[s] = "closed"
        /\ hlog[s][Len(hlog[s])] = Ev("close", "client", "", "l119")


\* C13: on interrupt the listener closes the listening socket and accepts no
\* further connection; the step changes nothing of any session; and the
\* process exits without waiting for a handler or copy task to end, i.e.
\* once main has returned the process can exit whatever the sessions do.
C13_ShutdownWithoutDrain ==
    /\ [](~listening => ~ENABLED (\E s \in Sessions : Accept(s)))
    /\ [][(listening /\ ~listening') =>
              \A s \in Sessions : SessionState(s)' = SessionState(s)]_vars
    /\ []((~listening /\ ~exited) => ENABLED Exit)


\* the sends of the 200 line by the handler of the session
Sends200(s) == {i \in Calls(s, "send", "client") : hlog[s][i][3] = "200"}

\* host and port of a CONNECT target: the text before the colon, and the
\* number after it
ConnectTarget(target) ==
    LET colon == {i \in 1..Len(target) : target[i] = ":"}
        k == CHOOSE i \in colon : \A j \in colon : i <= j
    IN  [host |-> SubSeq(target, 1, k - 1),
         port |-> ParseInt(SubSeq(target, k + 1, Len(target))).val]

\* C14: the 200 line is sent only in an authenticated CONNECT session and
\* only after the connect to the parsed host and port has succeeded; it is
\* sent at most once; the copy tasks are started only after that send has
\* returned, so that no copy task exists where the 200 was not sent.
C14_200AfterConnect ==
    \A s \in Sessions :
        /\ Cardinality(Sends200(s)) <= 1
        /\ \A i \in Sends200(s) :
               /\ Forwarded(s)
               /\ IsConnect(FirstLine(s))
               /\ dial[s] = ConnectTarget(Target(s))
               /\ \E j \in 1..(i - 1) : hlog[s][j] = Ev("connect", "upstream", "", "ok")
               /\ \A j \in Calls(s, "call", "tunnel_data") : i < j
        /\ (TunnelStarted(s) \/ Calls(s, "call", "tunnel_data") # {}) =>
               /\ \E i \in Sends200(s) : hlog[s][i][4] = "ok"
               /\ cout[s] # <<>>
               /\ cout[s][1] = Bytes200
        /\ \A d \in Directions : (tpc[s][d] # "none" \/ tsaw[s][d] # "none") => TunnelStarted(s)

\* a tunnel is up: the 200 was sent after the connect and both copy tasks
\* are in their loops
C14_TunnelUp ==
    \E s \in Sessions :
        /\ Sends200(s) # {}
        /\ cout[s] = <<Bytes200>>
        /\ dial[s].port = 443
        /\ \A d \in Directions : tpc[s][d] \in {"l125", "wait"}


\* the lines after the request line whose name is proxy-authorization, in
\* any case
LaterAuthLines(text) ==
    SelectSeq(Tail(Split(text, CRLF)), LAMBDA line : StartsWith(Lower(line), ProxyAuthPrefix))

\* the decision on the first of them alone: its value, the text after the
\* first colon, trimmed, holds the valid credentials
FirstMatchAccepted(text) ==
    /\ LaterAuthLines(text) # <<>>
    /\ CredentialsValid(Strip(Split1(LaterAuthLines(text)[1], <<":">>)[2]), VALID_USERS)

\* C15: the header is looked for only in the lines after the request line,
\* in any case of its name, and the first match alone decides: a session is
\* authenticated exactly when the value of that first match is accepted,
\* whatever a later matching line or the request line holds.
C15_FirstHeaderDecides ==
    \A s \in Sessions :
        (request[s] # <<>> /\ hpc[s] \notin {"l15", "l17"}) =>
            (Forwarded(s) <=> FirstMatchAccepted(request[s]))


\* the handler of the session is blocked: its client has sent no request, or
\* its upstream has sent no reply
Stalled(s) ==
    \/ hpc[s] = "l15" /\ cin[s] = <<>> /\ cpeer[s] = "up"
    \/ hpc[s] = "l111" /\ sin[s] = <<>> /\ speer[s] = "up"

\* the lines at which a handler is about to send to its client, to close a
\* socket, to create the upstream socket or to start the tunnel
SendOrCloseLines ==
    {"l18", "l41", "l42", "l68", "l69", "l73", "l94", "l95", "l99", "l104", "l106", "l112",
     "l114", "l115", "l119"}

\* C16: every accepted connection has one handler thread of its own, and
\* there is no admission limit: while a session is stalled the accept loop
\* still accepts the next connection, and the handler of every other
\* session that is about to send, close, create its upstream socket or
\* start its tunnel can take that step.
C16_StalledSessionBlocksItself ==
    /\ Cardinality({s \in Sessions : hpc[s] # "none"}) + arrivals = MaxSessions
    /\ \A s \in Sessions :
           Stalled(s) =>
               /\ (listening /\ arrivals > 0) => ENABLED (\E t \in Sessions : Accept(t))
               /\ \A t \in Sessions \ {s} :
                      hpc[t] \in SendOrCloseLines => ENABLED HandlerStep(t)

\* the first connection is stalled, its client having sent nothing, while
\* the connection accepted after it was served to its end
C16_ServedWhileStalled ==
    /\ hpc[1] = "l15"
    /\ csent[1] = <<>>
    /\ Stalled(1)
    /\ hpc[2] = "done"
    /\ Forwarded(2)
    /\ Raised(2) = {}
    /\ cout[2] # <<>>
    /\ listening


\* the responses the proxy makes up itself
GeneratedResponses == {Bytes407Required, Bytes407Invalid, Bytes400, Bytes200}

\* C17: the handler of a session writes at most one of the 407, the 400,
\* the 200 and the relayed reply to its client, the client receives at most
\* one response made up by the proxy, and a session for which
\* forward_request was called is never sent a 407, whatever happens in
\* forward_request.
C17_OneResponse ==
    \A s \in Sessions :
        /\ Cardinality(Calls(s, "send", "client")) <= 1
        /\ \A i \in Calls(s, "send", "client") : hlog[s][i][3] \in {"407", "400", "200", "reply"}
        /\ Cardinality({i \in 1..Len(cout[s]) : cout[s][i] \in GeneratedResponses}) <= 1
        /\ ~TunnelStarted(s) => Len(cout[s]) <= 1
        /\ Forwarded(s) =>
               /\ ~SentToClient(s, "407")
               /\ \A i \in 1..Len(cout[s]) : cout[s][i] \notin {Bytes407Required, Bytes407Invalid}

\* forward_request has failed at the dial and the session has ended with
\* nothing sent to its client
C17_FailedAfterAuthentication ==
    \E s \in Sessions :
        /\ Forwarded(s)
        /\ DialFailed(s)
        /\ hpc[s] = "done"
        /\ cout[s] = <<>>


\* the source line of each position of a handler
LineOf ==
    [l \in {"none", "l15", "l17", "l18", "l41", "l42", "l68", "l69", "l73", "l78", "l94", "l95",
            "l99", "l100", "l104", "l106", "l109", "l111", "l112", "l114", "l115", "l119", "done"}
       |-> CASE l = "none" -> 0 [] l = "l15" -> 15 [] l = "l17" -> 17 [] l = "l18" -> 18
             [] l = "l41" -> 41 [] l = "l42" -> 42 [] l = "l68" -> 68 [] l = "l69" -> 69
             [] l = "l73" -> 73 [] l = "l78" -> 78 [] l = "l94" -> 94 [] l = "l95" -> 95
             [] l = "l99" -> 99 [] l = "l100" -> 100 [] l = "l104" -> 104 [] l = "l106" -> 106
             [] l = "l109" -> 109 [] l = "l111" -> 111 [] l = "l112" -> 112 [] l = "l114" -> 114
             [] l = "l115" -> 115 [] l = "l119" -> 119 [] l = "done" -> 158]

\* C18: every path of a handler ends with the client socket closed: a
\* handler that has ended has closed it as its last call; a handler never
\* goes back to an earlier line, so that it ends unless a blocking call
\* fails to return; and at a send, a close, the socket creation or the
\* tunnel start it can always take its step.
C18_HandlerEndsClosed ==
    /\ [](\A s \in Sessions :
              /\ hpc[s] = "done" =>
                     /\ csock[s] = "closed"
                     /\ hlog[s] # <<>>
                     /\ hlog[s][Len(hlog[s])][1] = "close"
                     /\ hlog[s][Len(hlog[s])][2] = "client"
              /\ hpc[s] \in SendOrCloseLines => ENABLED HandlerStep(s))
    /\ [][\A s \in Sessions : hpc'[s] # hpc[s] => LineOf[hpc'[s]] > LineOf[hpc[s]]]_vars

\* a handler has ended through the except clause of handle_client, after a
\* request that is not UTF-8, with its client socket closed
C18_ClosedAfterException ==
    \E s \in Sessions :
        /\ hpc[s] = "done"
        /\ csock[s] = "closed"
        /\ request[s] = <<>>
        /\ hlog[s] = <<Ev("recv", "client", "request", "ok"), Ev("close", "client", "", "l73")>>


====
